---------------------------- MODULE Spec2Model ----------------------------
(***************************************************************************)
(* Model of the test-maker backend (src/main.py): the question generator   *)
(* (generate_mcq, generate_short, generate_questions), the two POST        *)
(* handlers generate_test and save_test, the request models that validate  *)
(* their bodies, and the "test" collection behind save_test.               *)
(*                                                                         *)
(* Strings are TLA+ strings: f-strings are concatenations (\o), so that    *)
(* two texts are equal exactly when the Python strings are.  Optional[T]   *)
(* is a sequence of length 0 (None) or 1 (the value).                      *)
(*                                                                         *)
(* Sync handlers run on worker threads; a thread's locals are the          *)
(* per-thread variables below, its position is pc.  The random module's    *)
(* generator is the one object the threads share (rng).                    *)
(***************************************************************************)
EXTENDS Integers, Sequences, FiniteSets, TLC

VARIABLES
    pc,        \* thread -> position in the handler it is running
    req,       \* thread -> the body of the generate request being served (req)
    idx,       \* thread -> loop variable i of generate_questions
    qs,        \* thread -> the list qs of generate_questions
    qtype,     \* thread -> local qtype of generate_questions
    bloom,     \* thread -> local bloom of generate_mcq
    options,   \* thread -> local options of generate_mcq, before the shuffle
    correct,   \* thread -> local correct of generate_mcq
    stem,      \* thread -> local stem of generate_mcq
    resp,      \* thread -> the last HTTP response the thread produced
    rng,       \* the process-wide generator of the random module
    db,        \* database.db is not None
    store      \* the documents of collection "test", in insertion order

vars == <<pc, req, idx, qs, qtype, bloom, options, correct, stem, resp, rng, db, store>>

locals == <<idx, qs, qtype, bloom, options, correct, stem>>

-----------------------------------------------------------------------------
(* Bounds of the model *)

\* longest batch asked for, apart from the batches at the limits of
\* num_questions
MaxBatch == 2
\* draws of the generator whose every outcome is followed
FreeDraws == 6
\* number of states of the seeded generator
RngModulus == 8
\* documents the collection holds before the model stops inserting
MaxStored == 1

-----------------------------------------------------------------------------
(* Optional values *)

None == <<>>

Some(v) == <<v>>

IsNone(o) == o = <<>>

-----------------------------------------------------------------------------
(* Strings *)

StartsWith(s, p) == Len(s) >= Len(p) /\ SubSeq(s, 1, Len(p)) = p

EndsWith(s, p) == Len(s) >= Len(p) /\ SubSeq(s, Len(s) - Len(p) + 1, Len(s)) = p

\* the i-th character of s, as a string of length 1
CharAt(s, i) == SubSeq(s, i, i)

LowerLetters == "abcdefghijklmnopqrstuvwxyz"

UpperLetters == "ABCDEFGHIJKLMNOPQRSTUVWXYZ"

LetterIndex(alphabet, c) ==
    IF \E k \in 1..26 : CharAt(alphabet, k) = c
    THEN CHOOSE k \in 1..26 : CharAt(alphabet, k) = c
    ELSE 0

IsCased(c) == LetterIndex(LowerLetters, c) > 0 \/ LetterIndex(UpperLetters, c) > 0

ToUpper(c) ==
    IF LetterIndex(LowerLetters, c) > 0
    THEN CharAt(UpperLetters, LetterIndex(LowerLetters, c))
    ELSE c

ToLower(c) ==
    IF LetterIndex(UpperLetters, c) > 0
    THEN CharAt(LowerLetters, LetterIndex(UpperLetters, c))
    ELSE c

\* str.title(): a cased character is upper-cased when it follows an uncased
\* one (or starts the string) and lower-cased otherwise.
RECURSIVE TitleFrom(_, _, _)
TitleFrom(s, i, prevCased) ==
    IF i > Len(s) THEN ""
    ELSE LET c == CharAt(s, i)
         IN  (IF IsCased(c)
              THEN (IF prevCased THEN ToLower(c) ELSE ToUpper(c))
              ELSE c)
             \o TitleFrom(s, i + 1, IsCased(c))

Title(s) == TitleFrom(s, 1, FALSE)

Digit(d) == CharAt("0123456789", d + 1)

\* str(n) of f"{n}", n >= 0
RECURSIVE IntToStr(_)
IntToStr(n) ==
    IF n < 10 THEN Digit(n)
    ELSE IntToStr(n \div 10) \o Digit(n % 10)


-----------------------------------------------------------------------------
(* Models: Question, TestModel, GenerateRequest *)

\* Question(text=..., type=..., ...): fields not given keep their defaults
\* (options, correct_index, answer_text: None).
Question(text, type, opts, correctIndex, answerText, points, bloomLevel) ==
    [text |-> text, type |-> type, options |-> opts,
     correct_index |-> correctIndex, answer_text |-> answerText,
     points |-> points, bloom_level |-> bloomLevel]

TestModel(title, subject, gradeLevel, description, questions, duration, tags) ==
    [title |-> title, subject |-> subject, grade_level |-> gradeLevel,
     description |-> description, questions |-> questions,
     duration_minutes |-> duration, tags |-> tags]

MinQuestions == 1

MaxQuestions == 50

\* the upper limit taken as exclusive
GenerateRequestAcceptsBelowMax(body) ==
    /\ body.num_questions \in Int
    /\ body.num_questions >= MinQuestions
    /\ body.num_questions < MaxQuestions

\* GenerateRequest accepts a body: topic and question_type are any str,
\* grade_level any optional str, num_questions an int with ge=1, le=50.
GenerateRequestAccepts(body) ==
    /\ body.num_questions \in Int
    /\ body.num_questions >= MinQuestions
    /\ body.num_questions <= MaxQuestions

\* TestModel (and Question) of main.py accept a body: every field is typed
\* and none carries a constraint on its value.
TestModelAccepts(body) ==
    /\ IF IsNone(body.duration_minutes) THEN TRUE
       ELSE body.duration_minutes[1] \in Int
    /\ \A k \in 1..Len(body.questions) :
          /\ body.questions[k].points \in Int
          /\ IF IsNone(body.questions[k].correct_index) THEN TRUE
             ELSE body.questions[k].correct_index[1] \in Int

\* Test and Question of schemas.py, the schema of collection "test":
\* duration_minutes has ge=1, points has ge=0.
SchemaTestAccepts(doc) ==
    /\ IF IsNone(doc.duration_minutes) THEN TRUE
       ELSE doc.duration_minutes[1] >= 1
    /\ \A k \in 1..Len(doc.questions) : doc.questions[k].points >= 0

-----------------------------------------------------------------------------
(* The generator's tables and templates *)

BLOOM_LEVELS == <<"Remember", "Understand", "Apply", "Analyze", "Evaluate", "Create">>

verbs(level) ==
    CASE level = "Remember"   -> <<"define", "list", "identify", "recall">>
      [] level = "Understand" -> <<"explain", "describe", "summarize", "classify">>
      [] level = "Apply"      -> <<"use", "demonstrate", "solve", "compute">>
      [] level = "Analyze"    -> <<"compare", "distinguish", "analyze", "differentiate">>
      [] level = "Evaluate"   -> <<"assess", "justify", "critique", "evaluate">>
      [] level = "Create"     -> <<"design", "compose", "develop", "formulate">>

\* bloom in ["Apply", "Analyze", "Evaluate", "Create"]
IsApplicationLevel(level) == level \in {"Apply", "Analyze", "Evaluate", "Create"}

\* bloom in ["Remember", "Understand"]
IsFactLevel(level) == level \in {"Remember", "Understand"}

McqStem(topic, level, verb, i) ==
    IF IsApplicationLevel(level)
    THEN "Q" \o IntToStr(i + 1) \o ". In the context of " \o topic \o ", "
             \o verb \o " the correct option."
    ELSE "Q" \o IntToStr(i + 1) \o ". Which of the following best relates to "
             \o topic \o "?"

McqCorrect(topic, level, verb) ==
    IF IsFactLevel(level)
    THEN "A concise fact about " \o topic
    ELSE "An example that shows how to " \o verb \o " using " \o topic

McqDistractors(topic, level) ==
    IF IsFactLevel(level)
    THEN << "An unrelated idea about " \o topic,
            "A partially correct idea about " \o topic,
            "A common misconception about " \o topic >>
    ELSE << "An example unrelated to " \o topic,
            "Incorrect application of " \o topic,
            "Vague statement without using " \o topic >>

\* the marker numbered from the loop variable itself
ShortStemFromZero(topic, i) ==
    "Q" \o IntToStr(i) \o ". Briefly explain the following about " \o topic \o ":"

ShortStem(topic, i) ==
    "Q" \o IntToStr(i + 1) \o ". Briefly explain the following about " \o topic \o ":"

ShortAnswer(topic) == "A 2-3 sentence explanation referencing " \o topic \o "."

\* list.index(x), 0-based: the first position holding x
ListIndex(seq, x) == (CHOOSE k \in 1..Len(seq) :
                        seq[k] = x /\ \A j \in 1..(k - 1) : seq[j] /= x) - 1

Swap(seq, a, b) == [seq EXCEPT ![a] = seq[b], ![b] = seq[a]]

\* random.shuffle of a 4-element list: for i = 3, 2, 1 swap x[i] with
\* x[j], j = randbelow(i + 1) (0-based positions); j3, j2, j1 are the draws.
Shuffled(seq, j3, j2, j1) ==
    Swap(Swap(Swap(seq, 4, j3 + 1), 3, j2 + 1), 2, j1 + 1)

-----------------------------------------------------------------------------
(* The shared generator of the random module *)

\* The generator's outputs are unknown until drawn.  The model lets the
\* next rng.entropy draws take any value of their range, so that every
\* outcome of those draws is followed, and makes the draws after them a
\* function of rng.state (a linear congruential sequence over RngModulus
\* states), so that long batches stay finite.  Every draw uses the
\* generator up by one step.
RngNext(r) ==
    IF r.entropy > 0
    THEN [r EXCEPT !.entropy = r.entropy - 1]
    ELSE [r EXCEPT !.state = (5 * r.state + 3) % RngModulus]

\* the values randbelow(n) may return in generator state r
Randbelow(r, n) ==
    IF r.entropy > 0
    THEN 0..(n - 1)
    ELSE {((r.state \div 2) + r.state) % n}

-----------------------------------------------------------------------------
(* Inputs *)

Topics == {"", "ox", "sea ice"}

GradeLevels == {None, Some("grade 5")}

\* question_type is a plain str: any string reaches the handler
QuestionTypes == {"mcq", "short", "mixed", "essay"}

GenerateBodies(topics, grades, counts, types) ==
    [topic : topics, grade_level : grades,
     num_questions : counts, question_type : types]

\* bodies posted to /api/tests by a caller
WellFormedTest ==
    TestModel("Oxen", Some("ox"), None, None,
              << Question("Q1. Which is an ox?", "mcq",
                          Some(<<"a", "b", "c", "d">>), Some(2), None, 1,
                          Some("Remember")),
                 Question("Q2. Describe an ox.", "short", None, None,
                          Some("A bovine."), 2, Some("Understand")) >>,
              Some(30), <<"ox">>)

ZeroDurationTest ==
    TestModel("Empty", None, None, None, <<>>, Some(0), <<>>)

MalformedQuestionTest ==
    TestModel("Odd", None, None, None,
              << Question("Q1. ?", "mcq", None, None, Some("both"), -1, None) >>,
              None, <<>>)

SaveBodies == {WellFormedTest, ZeroDurationTest, MalformedQuestionTest}

-----------------------------------------------------------------------------
(* Responses *)

Response(endpoint, status, body) ==
    [endpoint |-> endpoint, status |-> status, body |-> body]

Threads == DOMAIN pc

NoRequest == [topic |-> "", grade_level |-> None, num_questions |-> 0, question_type |-> ""]

ResetLocals(t) ==
    /\ idx' = [idx EXCEPT ![t] = 0]
    /\ qs' = [qs EXCEPT ![t] = <<>>]
    /\ qtype' = [qtype EXCEPT ![t] = ""]
    /\ bloom' = [bloom EXCEPT ![t] = ""]
    /\ options' = [options EXCEPT ![t] = <<>>]
    /\ correct' = [correct EXCEPT ![t] = ""]
    /\ stem' = [stem EXCEPT ![t] = ""]

-----------------------------------------------------------------------------
(* POST /api/tests/generate *)

\* The body is validated against GenerateRequest before the handler is
\* called: a rejected body is answered 422 and generate_test never runs.
GenerateTestCall(t, body) ==
    /\ pc[t] = "idle"
    /\ req' = [req EXCEPT ![t] = body]
    /\ ResetLocals(t)
    /\ IF GenerateRequestAccepts(body)
       THEN /\ pc' = [pc EXCEPT ![t] = "loop"]
            /\ resp' = [resp EXCEPT ![t] = None]
       ELSE /\ pc' = [pc EXCEPT ![t] = "respond"]
            /\ resp' = [resp EXCEPT ![t] = Some(Response("generate", 422, None))]
    /\ UNCHANGED <<rng, db, store>>

\* the kind of a mixed batch chosen once, with its first question
KindChoicesOncePerBatch(t) ==
    IF req[t].question_type = "mixed"
    THEN IF idx[t] > 0
         THEN {qs[t][1].type}
         ELSE {<<"mcq", "short">>[j + 1] : j \in Randbelow(rng, 2)}
    ELSE {req[t].question_type}

\* the kinds qtype may take in one iteration: the request's question_type,
\* or for "mixed" random.choice(["mcq", "short"])
KindChoices(t) ==
    IF req[t].question_type = "mixed"
    THEN {<<"mcq", "short">>[j + 1] : j \in Randbelow(rng, 2)}
    ELSE {req[t].question_type}

\* for i in range(req.num_questions): qtype = ...
ResolveKind(t, kind) ==
    /\ pc[t] = "loop"
    /\ idx[t] < req[t].num_questions
    /\ kind \in KindChoices(t)
    /\ qtype' = [qtype EXCEPT ![t] = kind]
    /\ rng' = IF req[t].question_type = "mixed" THEN RngNext(rng) ELSE rng
    /\ pc' = [pc EXCEPT ![t] = "dispatch"]
    /\ UNCHANGED <<req, idx, qs, bloom, options, correct, stem, resp, db, store>>

LoopIteration(t) == \E kind \in {"mcq", "short"} \cup {req[t].question_type} :
                        ResolveKind(t, kind)

\* points left at the default of Question
ShortQuestionDefaultPoints(t, level) ==
    Question(ShortStem(req[t].topic, idx[t]), "short", None, None,
             Some(ShortAnswer(req[t].topic)), 1, Some(level))

\* the Question generate_short returns for the level drawn
ShortQuestion(t, level) ==
    Question(ShortStem(req[t].topic, idx[t]), "short", None, None,
             Some(ShortAnswer(req[t].topic)), 2, Some(level))

\* generate_short, and qs.append of generate_questions
GenerateShort(t) ==
    /\ pc[t] = "dispatch"
    /\ qtype[t] = "short"
    /\ \E j \in Randbelow(rng, Len(BLOOM_LEVELS)) :
          qs' = [qs EXCEPT ![t] = Append(@, ShortQuestion(t, BLOOM_LEVELS[j + 1]))]
    /\ rng' = RngNext(rng)
    /\ idx' = [idx EXCEPT ![t] = @ + 1]
    /\ pc' = [pc EXCEPT ![t] = "loop"]
    /\ UNCHANGED <<req, qtype, bloom, options, correct, stem, resp, db, store>>

\* generate_mcq: bloom = random.choice(BLOOM_LEVELS)
McqChooseBloom(t) ==
    /\ pc[t] = "dispatch"
    /\ qtype[t] /= "short"
    /\ \E j \in Randbelow(rng, Len(BLOOM_LEVELS)) :
          bloom' = [bloom EXCEPT ![t] = BLOOM_LEVELS[j + 1]]
    /\ rng' = RngNext(rng)
    /\ pc' = [pc EXCEPT ![t] = "verb"]
    /\ UNCHANGED <<req, idx, qs, qtype, options, correct, stem, resp, db, store>>

\* generate_mcq: verb = random.choice(verbs[bloom]), then stem, correct,
\* distractors and options = distractors + [correct]
McqChooseVerb(t) ==
    /\ pc[t] = "verb"
    /\ \E j \in Randbelow(rng, Len(verbs(bloom[t]))) :
          LET verb == verbs(bloom[t])[j + 1]
              c == McqCorrect(req[t].topic, bloom[t], verb)
          IN  /\ stem' = [stem EXCEPT ![t] = McqStem(req[t].topic, bloom[t], verb, idx[t])]
              /\ correct' = [correct EXCEPT ![t] = c]
              /\ options' = [options EXCEPT ![t] =
                                McqDistractors(req[t].topic, bloom[t]) \o <<c>>]
    /\ rng' = RngNext(rng)
    /\ pc' = [pc EXCEPT ![t] = "shuffle"]
    /\ UNCHANGED <<req, idx, qs, qtype, bloom, resp, db, store>>

\* correct_index taken where correct was put before the shuffle
McqQuestionStaleIndex(t, shuffled) ==
    Question(stem[t], "mcq", Some(shuffled), Some(Len(shuffled) - 1),
             None, 1, Some(bloom[t]))

\* the Question generate_mcq returns for the shuffled options
McqQuestion(t, shuffled) ==
    Question(stem[t], "mcq", Some(shuffled), Some(ListIndex(shuffled, correct[t])),
             None, 1, Some(bloom[t]))

\* qs a list of the module, which every thread appends to
McqShuffleSharedList(t) ==
    /\ pc[t] = "shuffle"
    /\ \E j3 \in Randbelow(rng, 4) :
       \E j2 \in Randbelow(RngNext(rng), 3) :
       \E j1 \in Randbelow(RngNext(RngNext(rng)), 2) :
          qs' = [u \in Threads |->
                    Append(qs[u], McqQuestion(t, Shuffled(options[t], j3, j2, j1)))]
    /\ rng' = RngNext(RngNext(RngNext(rng)))
    /\ idx' = [idx EXCEPT ![t] = @ + 1]
    /\ bloom' = [bloom EXCEPT ![t] = ""]
    /\ options' = [options EXCEPT ![t] = <<>>]
    /\ correct' = [correct EXCEPT ![t] = ""]
    /\ stem' = [stem EXCEPT ![t] = ""]
    /\ pc' = [pc EXCEPT ![t] = "loop"]
    /\ UNCHANGED <<req, qtype, resp, db, store>>

\* generate_mcq: random.shuffle(options), correct_index, the Question; and
\* qs.append of generate_questions
McqShuffle(t) ==
    /\ pc[t] = "shuffle"
    /\ \E j3 \in Randbelow(rng, 4) :
       \E j2 \in Randbelow(RngNext(rng), 3) :
       \E j1 \in Randbelow(RngNext(RngNext(rng)), 2) :
          qs' = [qs EXCEPT ![t] =
                    Append(@, McqQuestion(t, Shuffled(options[t], j3, j2, j1)))]
    /\ rng' = RngNext(RngNext(RngNext(rng)))
    /\ idx' = [idx EXCEPT ![t] = @ + 1]
    /\ bloom' = [bloom EXCEPT ![t] = ""]
    /\ options' = [options EXCEPT ![t] = <<>>]
    /\ correct' = [correct EXCEPT ![t] = ""]
    /\ stem' = [stem EXCEPT ![t] = ""]
    /\ pc' = [pc EXCEPT ![t] = "loop"]
    /\ UNCHANGED <<req, qtype, resp, db, store>>

\* the smaller of the two
MinOfTwo(a, b) == IF a <= b THEN a ELSE b

Max(a, b) == IF a >= b THEN a ELSE b

\* the TestModel generate_test builds around the questions
AssembleTest(r, questions) ==
    TestModel(Title(r.topic) \o " - " \o IntToStr(r.num_questions) \o " Question Test",
              Some(r.topic),
              r.grade_level,
              Some("Auto-generated " \o r.question_type \o " test about " \o r.topic),
              questions,
              Some(Max(10, r.num_questions * 2)),
              <<"auto", "generated", r.topic>>)

\* the payload inserted into the collection before it is returned
GenerateTestReturnPersisting(t) ==
    /\ pc[t] = "loop"
    /\ idx[t] >= req[t].num_questions
    /\ resp' = [resp EXCEPT ![t] = Some(Response("generate", 200, AssembleTest(req[t], qs[t])))]
    /\ store' = IF db /\ Len(store) < MaxStored
                THEN Append(store, AssembleTest(req[t], qs[t]))
                ELSE store
    /\ pc' = [pc EXCEPT ![t] = "respond"]
    /\ UNCHANGED <<req, idx, qs, qtype, bloom, options, correct, stem, rng, db>>

\* generate_questions returns qs; generate_test returns payload.model_dump()
GenerateTestReturn(t) ==
    /\ pc[t] = "loop"
    /\ idx[t] >= req[t].num_questions
    /\ resp' = [resp EXCEPT ![t] = Some(Response("generate", 200, AssembleTest(req[t], qs[t])))]
    /\ pc' = [pc EXCEPT ![t] = "respond"]
    /\ UNCHANGED <<req, idx, qs, qtype, bloom, options, correct, stem, rng, db, store>>

-----------------------------------------------------------------------------
(* POST /api/tests *)

\* create_document("test", test_dict): append to the collection, return the id
CreateDocument(collection, doc) == Append(collection, doc)

SaveTest(t, test) ==
    /\ pc[t] = "idle"
    /\ TestModelAccepts(test)
    /\ Len(store) < MaxStored
    /\ req' = [req EXCEPT ![t] = NoRequest]
    /\ ResetLocals(t)
    /\ IF ~db
       THEN /\ resp' = [resp EXCEPT ![t] = Some(Response("save", 500, None))]
            /\ store' = store
       ELSE /\ store' = CreateDocument(store, test)
            /\ resp' = [resp EXCEPT ![t] =
                          Some(Response("save", 200, Some(IntToStr(Len(store) + 1))))]
    /\ pc' = [pc EXCEPT ![t] = "respond"]
    /\ UNCHANGED <<rng, db>>

-----------------------------------------------------------------------------
(* Specifications *)

\* the response is written out and the thread goes back to the pool
SendResponse(t) ==
    /\ pc[t] = "respond"
    /\ pc' = [pc EXCEPT ![t] = "idle"]
    /\ req' = [req EXCEPT ![t] = NoRequest]
    /\ resp' = [resp EXCEPT ![t] = None]
    /\ ResetLocals(t)
    /\ UNCHANGED <<rng, db, store>>

\* the steps of generate_test, once called
Generation(t) ==
    \/ LoopIteration(t)
    \/ GenerateShort(t)
    \/ McqChooseBloom(t)
    \/ McqChooseVerb(t)
    \/ McqShuffle(t)
    \/ GenerateTestReturn(t)

InitThreads(threads) ==
    /\ pc = [t \in threads |-> "idle"]
    /\ req = [t \in threads |-> NoRequest]
    /\ idx = [t \in threads |-> 0]
    /\ qs = [t \in threads |-> <<>>]
    /\ qtype = [t \in threads |-> ""]
    /\ bloom = [t \in threads |-> ""]
    /\ options = [t \in threads |-> <<>>]
    /\ correct = [t \in threads |-> ""]
    /\ stem = [t \in threads |-> ""]
    /\ resp = [t \in threads |-> None]
    /\ store = <<>>

\* One worker generating batches of up to MaxBatch questions, every
\* outcome of the first FreeDraws draws followed.
Init ==
    /\ InitThreads({1})
    /\ rng = [entropy |-> FreeDraws, state |-> 0]
    /\ db \in BOOLEAN

Next ==
    \E t \in Threads :
        \/ \E body \in GenerateBodies(Topics, {None},
                                      0..MaxBatch \cup {MaxQuestions + 1},
                                      QuestionTypes) :
              GenerateTestCall(t, body)
        \/ Generation(t)
        \/ SendResponse(t)

Spec == Init /\ [][Next]_vars

\* One worker generating and saving tests.
InitStore ==
    /\ InitThreads({1})
    /\ rng \in [entropy : {0}, state : 0..(RngModulus - 1)]
    /\ db \in BOOLEAN

NextStore ==
    \E t \in Threads :
        \/ \E body \in GenerateBodies(Topics, GradeLevels, 0..MaxBatch, QuestionTypes) :
              GenerateTestCall(t, body)
        \/ Generation(t)
        \/ \E test \in SaveBodies : SaveTest(t, test)
        \/ SendResponse(t)

SpecStore == InitStore /\ [][NextStore]_vars

\* One worker generating batches at and around the limits of
\* num_questions and of the duration rule.
BoundaryCounts ==
    {MinQuestions - 1, MinQuestions, 5, 6, MaxQuestions, MaxQuestions + 1}

InitBoundary ==
    /\ InitThreads({1})
    /\ rng \in [entropy : {0}, state : 0..(RngModulus - 1)]
    /\ db = FALSE

NextBoundary ==
    \E t \in Threads :
        \/ \E body \in GenerateBodies({"ox", "sea ice"}, GradeLevels, BoundaryCounts,
                                      {"mcq", "short", "mixed"}) :
              GenerateTestCall(t, body)
        \/ Generation(t)
        \/ SendResponse(t)

SpecBoundary == InitBoundary /\ [][NextBoundary]_vars

\* Two requests arriving, each served by a worker of its own, both
\* drawing from the one generator; the responses are left pending.
Workers == {1, 2}

ConcurrentCounts == {1, 2}

InitConcurrent ==
    /\ InitThreads(Workers)
    /\ rng \in [entropy : {0}, state : 0..(RngModulus - 1)]
    /\ db = FALSE

NextConcurrent ==
    \E t \in Threads :
        \/ \E body \in GenerateBodies({"ox", "sea ice"}, {None}, ConcurrentCounts,
                                      {"mixed"}) :
              GenerateTestCall(t, body)
        \/ Generation(t)

SpecConcurrent == InitConcurrent /\ [][NextConcurrent]_vars

-----------------------------------------------------------------------------
(* Properties *)

GenerationPositions == {"loop", "dispatch", "verb", "shuffle"}

\* thread t holds the answer to a generate request
Answered(t) == resp[t] /= None /\ resp[t][1].endpoint = "generate"

\* thread t holds the 200 answer of generate_test
Generated(t) == Answered(t) /\ resp[t][1].status = 200

Result(t) == resp[t][1].body.questions

KindsOf(questions) == {questions[k].type : k \in 1..Len(questions)}

Marker(k) == "Q" \o ToString(k) \o "."

SixLevels == {"Remember", "Understand", "Apply", "Analyze", "Evaluate", "Create"}

\* C1: a generated batch has exactly num_questions questions and the k-th
\* question's text starts with "Qk.", for every k from 1 to num_questions.
C1_BatchLengthAndOrder ==
    \A t \in Threads :
        Generated(t) =>
            /\ Len(Result(t)) = req[t].num_questions
            /\ \A k \in 1..req[t].num_questions :
                  StartsWith(Result(t)[k].text, Marker(k))

C1_Witness ==
    \E t \in Threads :
        /\ Generated(t)
        /\ req[t].num_questions = 50
        /\ req[t].question_type = "mixed"
        /\ KindsOf(Result(t)) = {"mcq", "short"}

\* the correct-option strings of a level's group, for a topic
CorrectStrings(topic, level) ==
    IF level \in {"Remember", "Understand"}
    THEN {"A concise fact about " \o topic}
    ELSE {"An example that shows how to " \o verbs(level)[j] \o " using " \o topic :
             j \in 1..Len(verbs(level))}

McqWellFormed(q, topic) ==
    /\ q.options /= None
    /\ q.correct_index /= None
    /\ q.bloom_level /= None
    /\ LET opts == q.options[1]
           ci == q.correct_index[1]
       IN  /\ Len(opts) = 4
           /\ ci \in 0..3
           /\ opts[ci + 1] \in CorrectStrings(topic, q.bloom_level[1])
           /\ \A j \in 1..4 : j /= ci + 1 => opts[j] /= opts[ci + 1]

\* C2: every mcq question the generator builds has 4 options and a
\* correct_index in 0..3 that points at the correct-option string of the
\* question's own bloom level group, which no other option equals.
C2_McqCorrectOption ==
    \A t \in Threads : \A k \in 1..Len(qs[t]) :
        qs[t][k].type = "mcq" => McqWellFormed(qs[t][k], req[t].topic)

C2_Witness ==
    \E t \in Threads : \E k \in 1..Len(qs[t]) :
        /\ qs[t][k].type = "mcq"
        /\ qs[t][k].bloom_level = Some("Analyze")
        /\ qs[t][k].correct_index = Some(1)
        /\ req[t].topic = "sea ice"

QuestionShape(q) ==
    /\ q.type \in {"mcq", "short"}
    /\ q.type = "mcq" =>
          /\ q.options /= None
          /\ q.correct_index /= None
          /\ q.answer_text = None
          /\ q.points = 1
    /\ q.type = "short" =>
          /\ q.options = None
          /\ q.correct_index = None
          /\ q.answer_text /= None
          /\ Len(q.answer_text[1]) > 0
          /\ q.points = 2
    /\ q.bloom_level /= None
    /\ q.bloom_level[1] \in SixLevels

\* C3: every question of a generated test has the shape of its type: an mcq
\* has options and correct_index, no answer_text and 1 point; a short has
\* no options, no correct_index, a non-empty answer_text and 2 points; and
\* its bloom_level is one of the six levels.
C3_QuestionShape ==
    \A t \in Threads :
        /\ \A k \in 1..Len(qs[t]) : QuestionShape(qs[t][k])
        /\ Generated(t) => \A k \in 1..Len(Result(t)) : QuestionShape(Result(t)[k])

C3_Witness ==
    \E t \in Threads :
        /\ Generated(t)
        /\ Len(Result(t)) = 2
        /\ Result(t)[1].type = "short"
        /\ Result(t)[2].type = "mcq"

\* C4: with question_type mcq every question is an mcq, with short every
\* question is a short, and with mixed each iteration makes its own choice:
\* whatever was generated before, every kind the generator can yield (both
\* kinds, while its draws are open) can be the kind of the next question,
\* and the question generated is of the kind chosen.
C4_KindFollowsRequest ==
    \A t \in Threads :
        /\ req[t].question_type = "mcq" => KindsOf(qs[t]) \subseteq {"mcq"}
        /\ req[t].question_type = "short" => KindsOf(qs[t]) \subseteq {"short"}
        /\ (req[t].question_type = "mixed" /\ pc[t] = "loop"
                /\ idx[t] < req[t].num_questions) =>
              /\ \A j \in Randbelow(rng, 2) :
                    ENABLED ResolveKind(t, <<"mcq", "short">>[j + 1])
              /\ rng.entropy > 0 =>
                    ENABLED ResolveKind(t, "mcq") /\ ENABLED ResolveKind(t, "short")
        /\ (req[t].question_type = "mixed" /\ pc[t] = "loop" /\ idx[t] > 0) =>
              qs[t][idx[t]].type = qtype[t]

C4_Witness ==
    \E t \in Threads :
        /\ req[t].question_type = "mixed"
        /\ req[t].num_questions = 2
        /\ pc[t] = "loop"
        /\ idx[t] = 1
        /\ rng.entropy > 0
        /\ ENABLED ResolveKind(t, "mcq")
        /\ ENABLED ResolveKind(t, "short")

\* C5: a generate request is answered with a test exactly when its
\* num_questions is in 1..50, the test then holding num_questions
\* questions; any other request is answered 422 with no question generated,
\* and the generator never runs for it.
C5_CountLimits ==
    \A t \in Threads :
        /\ pc[t] \in GenerationPositions =>
              req[t].num_questions >= 1 /\ req[t].num_questions <= 50
        /\ Answered(t) =>
              /\ resp[t][1].status = 200 <=>
                    (req[t].num_questions >= 1 /\ req[t].num_questions <= 50)
              /\ resp[t][1].status = 200 =>
                    Len(Result(t)) = req[t].num_questions
              /\ resp[t][1].status /= 200 =>
                    /\ resp[t][1].status = 422
                    /\ qs[t] = <<>>
                    /\ idx[t] = 0

C5_Witness ==
    \E t \in Threads :
        /\ Generated(t)
        /\ req[t].num_questions = 50
        /\ Len(Result(t)) = 50

\* C6: the generator runs, and a test is returned, only for a request whose
\* question_type is mcq, short or mixed and whose topic is not empty.
C6_OnlyValidRequestsGenerate ==
    \A t \in Threads :
        (pc[t] \in GenerationPositions \/ Generated(t)) =>
            /\ req[t].question_type \in {"mcq", "short", "mixed"}
            /\ req[t].topic /= ""

\* C7: the test returned for a request with num_questions = n has
\* duration_minutes 10 when n <= 5 and 2n otherwise, tags "auto",
\* "generated", topic, the topic as subject, the request's grade_level, a
\* title ending in " - n Question Test", and the generated questions in
\* generation order.
C7_AssembledTest ==
    \A t \in Threads :
        Generated(t) =>
            LET test == resp[t][1].body
                n == req[t].num_questions
            IN  /\ test.duration_minutes = Some(IF n <= 5 THEN 10 ELSE 2 * n)
                /\ test.duration_minutes[1] >= 1
                /\ test.tags = <<"auto", "generated", req[t].topic>>
                /\ test.subject = Some(req[t].topic)
                /\ test.grade_level = req[t].grade_level
                /\ EndsWith(test.title, " - " \o ToString(n) \o " Question Test")
                /\ test.questions = qs[t]

C7_Witness ==
    \E t \in Threads :
        /\ Generated(t)
        /\ req[t].num_questions = 6
        /\ req[t].grade_level = Some("grade 5")
        /\ resp[t][1].body.duration_minutes = Some(12)
        /\ resp[t][1].body.title = "Sea Ice - 6 Question Test"

\* exactly one of (options with correct_index) and answer_text is
\* populated, as the type says
OneAnswerForm(q) ==
    /\ q.type \in {"mcq", "short"}
    /\ q.type = "mcq" =>
          q.options /= None /\ q.correct_index /= None /\ q.answer_text = None
    /\ q.type = "short" =>
          q.options = None /\ q.correct_index = None /\ q.answer_text /= None

\* C8: every stored test has a duration_minutes that is an integer >= 1,
\* and every question of it has points >= 0 and exactly one answer form.
C8_StoredTestsFollowDataModel ==
    \A d \in 1..Len(store) :
        /\ store[d].duration_minutes /= None
        /\ store[d].duration_minutes[1] >= 1
        /\ SchemaTestAccepts(store[d])
        /\ \A k \in 1..Len(store[d].questions) :
              /\ store[d].questions[k].points >= 0
              /\ OneAnswerForm(store[d].questions[k])

\* thread t takes the step in which save_test answers
SaveStep(t) ==
    /\ pc[t] = "idle"
    /\ pc'[t] = "respond"
    /\ resp'[t] /= None
    /\ resp'[t][1].endpoint = "save"

\* C9: the collection changes only in a step of save_test with the
\* database configured, which appends one document; no step of
\* generate_test changes it, and save_test without a database answers 500
\* and stores nothing.
C9_OnlySaveStores ==
    [][ /\ store' /= store =>
              /\ db
              /\ Len(store') = Len(store) + 1
              /\ SubSeq(store', 1, Len(store)) = store
              /\ \E t \in Threads : SaveStep(t) /\ resp'[t][1].status = 200
        /\ \A t \in Threads :
              /\ (pc[t] \in GenerationPositions \/ pc'[t] \in GenerationPositions) =>
                    store' = store
              /\ (SaveStep(t) /\ ~db) =>
                    store' = store /\ resp'[t][1].status = 500
      ]_vars

C9_Witness ==
    \E t \in Threads :
        /\ Generated(t)
        /\ Len(Result(t)) > 0
        /\ Len(store) = 1

\* what a question generated for a topic at position k looks like
AboutTopic(q, topic, k) ==
    IF q.type = "short"
    THEN /\ q.text = Marker(k) \o " Briefly explain the following about " \o topic \o ":"
         /\ q.answer_text = Some("A 2-3 sentence explanation referencing " \o topic \o ".")
    ELSE /\ q.type = "mcq"
         /\ \/ q.text = Marker(k) \o " Which of the following best relates to " \o topic \o "?"
            \/ \E level \in SixLevels : \E j \in 1..4 :
                  q.text = Marker(k) \o " In the context of " \o topic \o ", "
                              \o verbs(level)[j] \o " the correct option."
         /\ McqWellFormed(q, topic)
         /\ \A j \in 1..4 : EndsWith(q.options[1][j], topic)

OptionsOf(questions) ==
    UNION {IF questions[k].options = None THEN {}
           ELSE {questions[k].options[1][j] : j \in 1..Len(questions[k].options[1])} :
           k \in 1..Len(questions)}

QuestionsOf(questions) == {questions[k] : k \in 1..Len(questions)}

\* the result of t is t's own: its length, its topic, its numbering
OwnResult(t) ==
    /\ Len(Result(t)) = req[t].num_questions
    /\ \A k \in 1..Len(Result(t)) : AboutTopic(Result(t)[k], req[t].topic, k)

Disjoint(t, u) ==
    /\ QuestionsOf(Result(t)) \cap QuestionsOf(Result(u)) = {}
    /\ OptionsOf(Result(t)) \cap OptionsOf(Result(u)) = {}

\* C10 as stated: whatever the interleaving, each result is its request's
\* own and no question or option of one result appears in another result.
C10_AsStated ==
    \A t \in Threads :
        Generated(t) =>
            /\ OwnResult(t)
            /\ \A u \in Threads \ {t} : Generated(u) => Disjoint(t, u)

\* C10 amended: whatever the interleaving, each result is its request's own
\* and no question or option of one result appears in the result of a
\* request for another topic.
C10_Isolation ==
    \A t \in Threads :
        Generated(t) =>
            /\ OwnResult(t)
            /\ \A u \in Threads \ {t} :
                  (Generated(u) /\ req[u].topic /= req[t].topic) => Disjoint(t, u)

C10_Witness ==
    \E t \in Threads : \E u \in Threads :
        /\ t /= u
        /\ Generated(t)
        /\ Generated(u)
        /\ pc[t] = "respond"
        /\ pc[u] = "respond"
        /\ req[t].topic /= req[u].topic
        /\ req[t].num_questions = 2
        /\ req[u].num_questions = 2
        /\ "mcq" \in KindsOf(Result(t))
        /\ "mcq" \in KindsOf(Result(u))

=============================================================================
